---- MODULE Spec2Model ----
(***************************************************************************)
(* Model of the SecureWhisper mesh overlay (src/network/mesh.py) and of    *)
(* the part of the lifecycle controller (src/mesh_chat.py) that starts it. *)
(*                                                                         *)
(* The program is single-threaded asyncio: a coroutine runs atomically     *)
(* from one await to the next.  Every action below is one such run: it     *)
(* starts where a coroutine is resumed and ends at its next await (or at   *)
(* its return).  Outcomes of network operations (connect/send succeeds or  *)
(* raises) and the wall clock are chosen by the environment.               *)
(***************************************************************************)
EXTENDS Integers, Sequences, FiniteSets

\* ------------------------------------------------------------- bounds
NumPeers == 2      \* peers known to the registry
MaxMsg == 1        \* distinct message texts the user may send
MaxCalls == 1      \* broadcast_message coroutines alive at the same time
MaxInst == 2       \* instances of each background loop that start() leaves alive
MaxRetryPorts == 3 \* max_retry_ports: candidate ports of one start()
HashMod == 2       \* size of the fingerprint space of hash()
MaxTicks == 1      \* clock advances of one peer timeout each
MaxHours == 2      \* clock advances of one retention window each

\* -------------------------------------------------- program constants
FailThreshold == 3        \* failed_attempts >= 3 deactivates a peer
MaxAttempts == 5          \* buffered message retried while attempts < 5
PeerTimeout == 300        \* self.peer_timeout
RetentionWindow == 3600   \* buffered message dropped after 1 hour
BasePort == 12345         \* base_port
MaxStartRetries == 3      \* max_retries of MeshChat.start
TorMaxRetries == 3        \* max_retries of TorManager.start

Peers == 1..NumPeers
Msgs == 1..MaxMsg
Calls == 1..MaxCalls
Inst == 1..MaxInst

VARIABLES
  now,             \* time.time()
  is_running,      \* MeshNetwork.is_running
  peers,           \* MeshNetwork.peers: the keys of the dict, in dict order
  pstate,          \* the PeerState object of every peer
  known_messages,  \* MeshNetwork.known_messages
  message_buffer,  \* MeshNetwork.message_buffer: the entries, in list order
  battempts,       \* msg["attempts"] of the entry dict made for <<peer, text>>
  btime,           \* msg["timestamp"] of that entry dict
  bc,              \* the broadcast_message coroutines
  hb,              \* the _heartbeat tasks
  mt,              \* the _peer_maintenance tasks
  bf,              \* the _handle_message_buffer tasks
  bresult,         \* history: what broadcast did for peer p with text m
  bsent,           \* history: connections broadcast opened to p for text m
  recv,            \* history: frames with text m that reached peer p
  hbfails,         \* history: heartbeat failures of p since its last heartbeat success
  hbdecay,         \* history: maintenance lowered p's counter since that success
  n0,              \* history: failed_attempts of an inactive peer after the last failure
                   \* or heartbeat success on it (-1: the peer is active or was removed)
  cycles,          \* history: maintenance cycles the peer went through since then
  port,            \* MeshNetwork.port (0: None)
  http_runner,     \* the liveness responder listens on base_port
  dht_bound,       \* the ports on which this process holds a DHT endpoint
  dht_transport,   \* the port of the endpoint Server.transport refers to (0: None)
  occupied,        \* candidate ports held by other processes
  base_port,       \* base_port as other processes leave it: "free", "bound", "listening"
  start,           \* the MeshNetwork.start coroutine
  ctl,             \* the MeshChat.start coroutine
  live,            \* per background loop, the tasks created and not yet ended
  tried,           \* history: the candidates of the current start() and their outcome
  stop,            \* the MeshNetwork.stop coroutine
  peer_kind        \* what the host of peer p runs: this program ("node", with
                   \* its responder up, or "bare", without), or something else
                   \* that accepts connections on the port this node dials ("other")

meshVars == <<now, peers, pstate, known_messages, message_buffer, battempts,
              btime, bc, hb, mt, bf, bresult, bsent, recv, hbfails, hbdecay,
              n0, cycles>>
netVars == <<port, http_runner, dht_bound, dht_transport, occupied, base_port,
             start, ctl, tried, stop, peer_kind>>
startVars == <<netVars, live>>
vars == <<is_running, meshVars, startVars>>

\* ------------------------------------------------------- pure helpers
Min(a, b) == IF a < b THEN a ELSE b
Max(a, b) == IF a > b THEN a ELSE b

\* PeerState(last_seen=t): the dataclass defaults
PeerState(t) == [last_seen |-> t, failed_attempts |-> 0, is_active |-> TRUE]

\* hash(message): the fingerprint; distinct texts may collide
Hash(m) == m % HashMod

\* _compress_message: zstd level 3 of the encoded text
CompressMessage(m) == [codec |-> "zstd", text |-> m]

\* mutant: the threshold test is off by one
RecordFailureLate(st) ==
  LET n == st.failed_attempts + 1
  IN [st EXCEPT !.failed_attempts = n,
                !.is_active = IF n > FailThreshold THEN FALSE ELSE @]

\* mutant: the counter is raised and the peer is never deactivated
RecordFailureCounterOnly(st) ==
  [st EXCEPT !.failed_attempts = st.failed_attempts + 1]

\* the except-branch of broadcast_message and _heartbeat on a PeerState
RecordFailure(st) ==
  LET n == st.failed_attempts + 1
  IN [st EXCEPT !.failed_attempts = n,
                !.is_active = IF n >= FailThreshold THEN FALSE ELSE @]

\* the success branch of _heartbeat on a PeerState
RecordHeartbeat(st, t) == [st EXCEPT !.last_seen = t, !.failed_attempts = 0]

\* mutant: a peer is reactivated as soon as its counter is below the threshold
DecayEager(st) ==
  LET n == IF ~st.is_active /\ st.failed_attempts > 0
           THEN Max(0, st.failed_attempts - 1) ELSE st.failed_attempts
  IN [st EXCEPT !.failed_attempts = n,
                !.is_active = IF n < FailThreshold THEN TRUE ELSE @]

\* mutant: the counter is lowered and the peer is never reactivated
DecayCounterOnly(st) ==
  [st EXCEPT !.failed_attempts = IF ~st.is_active /\ st.failed_attempts > 0
                                 THEN Max(0, st.failed_attempts - 1) ELSE @]

\* one peer's step of "Reset failed attempts periodically"
Decay(st) ==
  LET n == IF ~st.is_active /\ st.failed_attempts > 0
           THEN Max(0, st.failed_attempts - 1) ELSE st.failed_attempts
  IN [st EXCEPT !.failed_attempts = n,
                !.is_active = IF n = 0 THEN TRUE ELSE @]

\* the filter of "Remove stale peers"
Fresh(st, t) == t - st.last_seen < PeerTimeout

\* mutant: the loop does not test is_active
SkipNothing(rest, ps) == rest

\* "if not state.is_active: continue": the part of the snapshot that starts
\* at the next active peer
RECURSIVE SkipInactive(_, _)
SkipInactive(rest, ps) ==
  IF rest = <<>> THEN <<>>
  ELSE IF ps[Head(rest)].is_active THEN rest
  ELSE SkipInactive(Tail(rest), ps)

Range(s) == {s[i] : i \in 1..Len(s)}

Keys == Peers \X Msgs

\* the dict appended to message_buffer for peer k[1] and text k[2]
BufferedMessage(k) ==
  [peer |-> k[1], message |-> CompressMessage(k[2]),
   attempts |-> battempts[k], timestamp |-> btime[k]]

\* the most failed_attempts can be: a peer is contacted while active, so past
\* the threshold only the sends and heartbeats already under way can fail
MostFailures == FailThreshold + MaxInst + MaxCalls

\* history of the liveness claims: an event on a peer restarts the count of
\* maintenance cycles; -1 when the event left the peer active
\* (the count stops at MostFailures, more cycles than a counter needs to reach 0)
TrackN(st) == IF st.is_active THEN -1 ELSE st.failed_attempts

IdleCall == [pc |-> "idle", msg |-> 0, rest |-> <<>>, failed |-> <<>>]

\* ------------------------------------------------------ the wire
PeerKinds == {"node", "bare", "other"}

\* The TCP ports on which the host of peer p accepts a connection.  A host
\* that runs this program listens on TCP with its liveness responder only
\* (the DHT endpoint is a datagram endpoint); any other host is taken to
\* accept on the port this node dials.
Listeners(p) ==
  IF peer_kind[p] = "node" THEN {BasePort}
  ELSE IF peer_kind[p] = "bare" THEN {}
  ELSE {port}

\* _peer_connection: open_connection(peer, self.port) can succeed
CanConnect(p) == port \in Listeners(p)

\* len(data): text m stands for a text of m bytes, and a compressed frame
\* adds its header
ZstdHeader == 9
ByteLength(data) == IF data.codec = "zstd" THEN ZstdHeader + data.text ELSE data.text

\* _send_message: the 4-byte big-endian length, then the data; to_bytes
\* raises when the length does not fit
Frame(data) ==
  IF ByteLength(data) < 2 ^ 32
  THEN [length |-> ByteLength(data), payload |-> data]
  ELSE [length |-> -1, payload |-> <<>>]

\* _decompress_message: the text of a zstd frame, and the decoded bytes of
\* data that is no zstd frame
DecompressMessage(data) == data.text

\* The frames the dissemination protocol of peer p has read.  The program
\* opens no listener for frames and reads none: _receive_messages of the
\* window is an empty loop and _decompress_message has no caller.
Inbox(p) == <<>>

\* ------------------------------------------------- broadcast_message
\* mutant: the fingerprint is never found
NeverKnown(m) == FALSE

\* "if msg_hash in self.known_messages: return"
AlreadyKnown(m) == Hash(m) \in known_messages

\* mutant: the failed sends are not buffered
EnqueueNothing(failed, m) == UNCHANGED <<message_buffer, battempts, btime>>

\* "Add failed deliveries to buffer": one new dict per failed peer
Enqueue(failed, m) ==
  /\ message_buffer' = message_buffer \o [i \in 1..Len(failed) |-> <<failed[i], m>>]
  /\ battempts' = [k \in Keys |-> IF k[2] = m /\ k[1] \in Range(failed)
                                  THEN 0 ELSE battempts[k]]
  /\ btime' = [k \in Keys |-> IF k[2] = m /\ k[1] \in Range(failed)
                              THEN now ELSE btime[k]]

\* The for-loop of broadcast_message from the peer at the head of `rest` to
\* the next await: inactive peers are skipped; either a connection to the next
\* active peer is opened, or the loop ends and the failed sends are buffered.
\* `ps` is the registry's PeerState after this step, `res` the history so far.
BroadcastLoop(c, m, rest, failed, ps, res) ==
  LET r == SkipInactive(rest, ps)
      skipped == {rest[i] : i \in 1..(Len(rest) - Len(r))}
  IN /\ bresult' = [p \in Peers |-> [x \in Msgs |->
                      IF x = m /\ p \in skipped THEN "skip"
                      ELSE IF x = m /\ r # <<>> /\ p = Head(r) THEN "conn"
                      ELSE res[p][x]]]
     /\ IF r = <<>>
        THEN /\ bc' = [bc EXCEPT ![c] = IdleCall]
             /\ Enqueue(failed, m)
             /\ UNCHANGED bsent
        ELSE /\ bc' = [bc EXCEPT ![c] = [pc |-> "conn", msg |-> m, rest |-> r,
                                          failed |-> failed]]
             /\ bsent' = [bsent EXCEPT ![Head(r)][m] = @ + 1]
             /\ UNCHANGED <<startVars, message_buffer, battempts, btime>>

\* a call with a text whose fingerprint is known returns at once
BroadcastDuplicate(m) ==
  /\ is_running
  /\ AlreadyKnown(m)
  /\ UNCHANGED vars

\* a call with a new text: fingerprint recorded, payload compressed, the
\* registry dict of this moment iterated
BroadcastNew(c, m) ==
  /\ is_running
  /\ bc[c].pc = "idle"
  /\ ~AlreadyKnown(m)
  /\ known_messages' = known_messages \cup {Hash(m)}
  /\ BroadcastLoop(c, m, peers, <<>>, pstate, bresult)
  /\ UNCHANGED <<startVars, bf, now, is_running, peers, pstate, hb, mt, recv, hbfails, hbdecay,
                 n0, cycles>>

\* "async with self._peer_connection(peer)" and _send_message returned
BroadcastSendOk(c) ==
  /\ bc[c].pc = "conn"
  /\ CanConnect(Head(bc[c].rest))
  /\ LET p == Head(bc[c].rest)
         m == bc[c].msg
     IN /\ recv' = [recv EXCEPT ![p][m] = Min(@ + 1, MaxInst + 1)]
        /\ BroadcastLoop(c, m, Tail(bc[c].rest), bc[c].failed, pstate,
                         [bresult EXCEPT ![p][m] = "ok"])
  /\ UNCHANGED <<startVars, bf, now, is_running, peers, pstate, known_messages, hb, mt,
                 hbfails, hbdecay, n0, cycles>>

\* the connection or the send raised
BroadcastSendFail(c) ==
  /\ bc[c].pc = "conn"
  /\ LET p == Head(bc[c].rest)
         m == bc[c].msg
         ps == [pstate EXCEPT ![p] = RecordFailure(@)]
     IN /\ pstate' = ps
        /\ n0' = [n0 EXCEPT ![p] = TrackN(ps[p])]
        /\ cycles' = [cycles EXCEPT ![p] = 0]
        /\ BroadcastLoop(c, m, Tail(bc[c].rest), Append(bc[c].failed, p), ps,
                         [bresult EXCEPT ![p][m] = "fail"])
  /\ UNCHANGED <<startVars, bf, now, is_running, peers, known_messages, hb, mt, recv, hbfails,
                 hbdecay>>

\* --------------------------------------------------------- _heartbeat
\* mutant: a loop that goes on whatever the flag says
LoopConditionAlways(running) == TRUE
\* "while self.is_running" of the three background loops
LoopCondition(running) == running

\* the tasks of a loop that are left when one of them ends
OneEnded(k) == [live EXCEPT ![k] = live[k] - 1]

\* the for-loop of _heartbeat up to its next await
HeartbeatLoop(i, rest, ps) ==
  LET r == SkipInactive(rest, ps)
  IN hb' = [hb EXCEPT ![i] = IF r = <<>> THEN [pc |-> "sleep", rest |-> <<>>]
                             ELSE [pc |-> "conn", rest |-> r]]

\* the task wakes from sleep(30) (or runs first) and finds is_running set
HeartbeatWake(i) ==
  /\ hb[i].pc = "sleep"
  /\ LoopCondition(is_running)
  /\ HeartbeatLoop(i, peers, pstate)
  /\ UNCHANGED <<startVars, bf, now, is_running, peers, pstate, known_messages, message_buffer,
                 battempts, btime, bc, mt, bresult, bsent, recv, hbfails, hbdecay,
                 n0, cycles>>

\* the PING frame was sent
HeartbeatOk(i) ==
  /\ hb[i].pc = "conn"
  /\ CanConnect(Head(hb[i].rest))
  /\ LET p == Head(hb[i].rest)
         ps == [pstate EXCEPT ![p] = RecordHeartbeat(@, now)]
     IN /\ pstate' = ps
        /\ hbfails' = [hbfails EXCEPT ![p] = 0]
        /\ hbdecay' = [hbdecay EXCEPT ![p] = FALSE]
        /\ n0' = [n0 EXCEPT ![p] = TrackN(ps[p])]
        /\ cycles' = [cycles EXCEPT ![p] = 0]
        /\ HeartbeatLoop(i, Tail(hb[i].rest), ps)
  /\ UNCHANGED <<startVars, bf, now, is_running, peers, known_messages, message_buffer,
                 battempts, btime, bc, mt, bresult, bsent, recv>>

\* the connection or the send raised
HeartbeatFail(i) ==
  /\ hb[i].pc = "conn"
  /\ LET p == Head(hb[i].rest)
         ps == [pstate EXCEPT ![p] = RecordFailure(@)]
     IN /\ pstate' = ps
        /\ hbfails' = [hbfails EXCEPT ![p] = Min(@ + 1, FailThreshold)]
        /\ UNCHANGED hbdecay
        /\ n0' = [n0 EXCEPT ![p] = TrackN(ps[p])]
        /\ cycles' = [cycles EXCEPT ![p] = 0]
        /\ HeartbeatLoop(i, Tail(hb[i].rest), ps)
  /\ UNCHANGED <<startVars, bf, now, is_running, peers, known_messages, message_buffer,
                 battempts, btime, bc, mt, bresult, bsent, recv>>

\* --------------------------------------------------- _peer_maintenance
\* one iteration of the loop: it has no await before its sleep(60)
MaintenanceCycle(i) ==
  /\ mt[i] = "sleep"
  /\ LoopCondition(is_running)
  /\ LET kept == SelectSeq(peers, LAMBDA p : Fresh(pstate[p], now))
     IN /\ peers' = kept
        /\ pstate' = [p \in Peers |-> IF p \in Range(kept) THEN Decay(pstate[p])
                                      ELSE pstate[p]]
        /\ hbdecay' = [p \in Peers |->
                        hbdecay[p] \/ (p \in Range(kept) /\ Decay(pstate[p]) # pstate[p])]
        /\ n0' = [p \in Peers |->
                   IF p \in Range(kept) /\ ~Decay(pstate[p]).is_active
                   THEN n0[p] ELSE -1]
        /\ cycles' = [p \in Peers |->
                       IF p \in Range(kept) /\ ~Decay(pstate[p]).is_active /\ n0[p] >= 0
                       THEN Min(cycles[p] + 1, MostFailures) ELSE 0]
  /\ UNCHANGED <<startVars, bf, now, is_running, known_messages, message_buffer, battempts,
                 btime, bc, hb, mt, bresult, bsent, recv, hbfails>>

\* ------------------------------------------------ _handle_message_buffer
\* mutant: the age of an entry is tested before its attempts
ScanVerdictAgeFirst(attempts, age) ==
  IF age > RetentionWindow THEN "drop"
  ELSE IF attempts < MaxAttempts THEN "send"
  ELSE "keep"

\* what one iteration of the for-loop does with an entry:
\* "if msg["attempts"] < 5 ... elif current_time - msg["timestamp"] > 3600"
ScanVerdict(attempts, age) ==
  IF attempts < MaxAttempts THEN "send"
  ELSE IF age > RetentionWindow THEN "drop"
  ELSE "keep"

\* list.remove(k): the first equal element is taken out
RECURSIVE Remove(_, _)
Remove(buf, k) ==
  IF buf = <<>> THEN <<>>
  ELSE IF Head(buf) = k THEN Tail(buf)
  ELSE <<Head(buf)>> \o Remove(Tail(buf), k)

\* The for-loop over the copy of the buffer, from the entry at the head of
\* `rest` to the next await: an entry to send stops the scan at its
\* _send_to_peer; an expired entry is removed, and remove() of an entry that
\* is no longer in the list raises ValueError, which ends the task; after the
\* last entry the task sleeps retry_interval.
RECURSIVE BufferScan(_, _, _)
BufferScan(rest, t, buf) ==
  IF rest = <<>> THEN [pc |-> "sleep", rest |-> <<>>, buf |-> buf]
  ELSE LET k == Head(rest)
           v == ScanVerdict(battempts[k], t - btime[k])
       IN IF v = "send" THEN [pc |-> "send", rest |-> rest, buf |-> buf]
          ELSE IF v = "drop"
          THEN IF k \in Range(buf) THEN BufferScan(Tail(rest), t, Remove(buf, k))
               ELSE [pc |-> "dead", rest |-> <<>>, buf |-> buf]
          ELSE BufferScan(Tail(rest), t, buf)

BufferTask(r, t) == [pc |-> r.pc, rest |-> r.rest, current_time |-> t]

\* the task wakes from sleep(retry_interval) (or runs first), finds
\* is_running set, reads the clock and copies the buffer
BufferWake(i) ==
  /\ bf[i].pc = "sleep"
  /\ LoopCondition(is_running)
  /\ LET r == BufferScan(message_buffer, now, message_buffer)
     IN /\ bf' = [bf EXCEPT ![i] = BufferTask(r, now)]
        /\ message_buffer' = r.buf
        /\ live' = IF r.pc = "dead" THEN OneEnded("buffer") ELSE live
  /\ UNCHANGED <<netVars, now, is_running, peers, pstate, known_messages, battempts,
                 btime, bc, hb, mt, bresult, bsent, recv, hbfails, hbdecay,
                 n0, cycles>>

\* _send_to_peer returned: the entry is removed and the scan goes on; when
\* the entry is no longer in the list, remove() raises inside the try, the
\* except-branch counts an attempt and the task backs off
BufferSendOk(i) ==
  /\ bf[i].pc = "send"
  /\ CanConnect(Head(bf[i].rest)[1])
  /\ LET k == Head(bf[i].rest)
     IN /\ recv' = [recv EXCEPT ![k[1]][k[2]] = Min(@ + 1, MaxInst + 1)]
        /\ IF k \in Range(message_buffer)
           THEN LET r == BufferScan(Tail(bf[i].rest), bf[i].current_time,
                                    Remove(message_buffer, k))
                IN /\ bf' = [bf EXCEPT ![i] = BufferTask(r, bf[i].current_time)]
                   /\ message_buffer' = r.buf
                   /\ live' = IF r.pc = "dead" THEN OneEnded("buffer") ELSE live
                   /\ UNCHANGED battempts
           ELSE /\ bf' = [bf EXCEPT ![i].pc = "backoff"]
                /\ battempts' = [battempts EXCEPT ![k] = @ + 1]
                /\ UNCHANGED <<message_buffer, live>>
  /\ UNCHANGED <<netVars, now, is_running, peers, pstate, known_messages, btime, bc, hb,
                 mt, bresult, bsent, hbfails, hbdecay, n0, cycles>>

\* _send_to_peer raised: an attempt is counted, then sleep(2 ** attempts)
BufferSendFail(i) ==
  /\ bf[i].pc = "send"
  /\ battempts' = [battempts EXCEPT ![Head(bf[i].rest)] = @ + 1]
  /\ bf' = [bf EXCEPT ![i].pc = "backoff"]
  /\ UNCHANGED <<startVars, now, is_running, peers, pstate, known_messages, message_buffer,
                 btime, bc, hb, mt, bresult, bsent, recv, hbfails, hbdecay,
                 n0, cycles>>

\* the backoff sleep is over: the scan goes on with the next entry
BufferBackoffDone(i) ==
  /\ bf[i].pc = "backoff"
  /\ LET r == BufferScan(Tail(bf[i].rest), bf[i].current_time, message_buffer)
     IN /\ bf' = [bf EXCEPT ![i] = BufferTask(r, bf[i].current_time)]
        /\ message_buffer' = r.buf
        /\ live' = IF r.pc = "dead" THEN OneEnded("buffer") ELSE live
  /\ UNCHANGED <<netVars, now, is_running, peers, pstate, known_messages, battempts,
                 btime, bc, hb, mt, bresult, bsent, recv, hbfails, hbdecay,
                 n0, cycles>>

\* ------------------------------------------------- the end of a loop
\* the _heartbeat task wakes from sleep(30), finds is_running clear and ends
HeartbeatExit(i) ==
  /\ hb[i].pc = "sleep"
  /\ ~LoopCondition(is_running)
  /\ hb' = [hb EXCEPT ![i].pc = "done"]
  /\ live' = OneEnded("heartbeat")
  /\ UNCHANGED <<netVars, bf, now, is_running, peers, pstate, known_messages,
                 message_buffer, battempts, btime, bc, mt, bresult, bsent, recv,
                 hbfails, hbdecay, n0, cycles>>

\* the _peer_maintenance task wakes from sleep(60), finds is_running clear
\* and ends
MaintenanceExit(i) ==
  /\ mt[i] = "sleep"
  /\ ~LoopCondition(is_running)
  /\ mt' = [mt EXCEPT ![i] = "done"]
  /\ live' = OneEnded("maintenance")
  /\ UNCHANGED <<netVars, bf, now, is_running, peers, pstate, known_messages,
                 message_buffer, battempts, btime, bc, hb, bresult, bsent, recv,
                 hbfails, hbdecay, n0, cycles>>

\* the _handle_message_buffer task wakes from sleep(retry_interval), finds
\* is_running clear and ends
BufferExit(i) ==
  /\ bf[i].pc = "sleep"
  /\ ~LoopCondition(is_running)
  /\ bf' = [bf EXCEPT ![i].pc = "done"]
  /\ live' = OneEnded("buffer")
  /\ UNCHANGED <<netVars, now, is_running, peers, pstate, known_messages,
                 message_buffer, battempts, btime, bc, hb, mt, bresult, bsent,
                 recv, hbfails, hbdecay, n0, cycles>>

\* ---------------------------------------------------------- the clock
\* time.time() moves on by d, up to the horizon of the specification
Tick(d, horizon) ==
  /\ now + d <= horizon
  /\ now' = now + d
  /\ UNCHANGED <<startVars, bf, is_running, peers, pstate, known_messages, message_buffer,
                 battempts, btime, bc, hb, mt, bresult, bsent, recv, hbfails,
                 hbdecay, n0, cycles>>

\* ------------------------------------------------- start-up and lifecycle
Kinds == {"maintenance", "buffer", "heartbeat"}

\* the candidates counted from base_port itself
TestPortFromBase(port_offset) == BasePort + port_offset
\* test_port of start(): the candidate at port_offset
TestPort(port_offset) == BasePort + port_offset + 1

\* the range the final RuntimeError of start() names
ErrorRange == <<BasePort + 1, BasePort + MaxRetryPorts>>

\* _start_http_server: a responder already up is kept; otherwise the
\* responder comes up when nothing else holds base_port
StartHttpServer(runner) == IF runner THEN TRUE ELSE base_port = "free"

\* mutant: the connect of _verify_network is never refused
VerifyNetworkAlways == TRUE

\* _verify_network: a TCP connect to base_port on the loopback
VerifyNetwork == http_runner \/ base_port = "listening"

\* Server.listen binds a new endpoint unless the port is held already, by
\* another process or by an endpoint of this process
CanListen(p) == p \notin occupied /\ p \notin dht_bound

\* Server.stop closes the endpoint Server.transport refers to, and no other
DhtStop(bound, transport) == bound \ {transport}

IdleStart == [pc |-> "idle", offset |-> 0, error |-> <<>>, probe |-> "none"]

\* the except branch of start() leaving the flag as it is
RunningAfterFailureKept == is_running
\* is_running after the except branch of start()
RunningAfterFailure == FALSE

\* start(), except branch: stop the DHT, clear the flag, go on with the
\* next candidate; past the last one the RuntimeError leaves start()
CandidateFailed(bound) ==
  /\ dht_bound' = DhtStop(bound, dht_transport')
  /\ is_running' = RunningAfterFailure
  /\ start' = IF start.offset + 1 < MaxRetryPorts
           THEN [start EXCEPT !.pc = "try", !.offset = start.offset + 1,
                              !.probe = "none"]
           ELSE [start EXCEPT !.pc = "raised", !.error = ErrorRange,
                              !.probe = "none"]

\* the fields of the TorManager and the attempt of its start(): `verified`
\* is a history of the last _wait_for_tor, True when it read the hostname
\* file and connected to the SOCKS port
NoTor == [attempt |-> 0, onion_address |-> FALSE, verified |-> FALSE]

\* TorManager.start: _wait_for_tor returns True, start() returns
TorStartVerified ==
  /\ ctl.pc = "new"
  /\ ctl' = [ctl EXCEPT !.pc = "mesh",
                        !.tor = [attempt |-> 0, onion_address |-> TRUE,
                                 verified |-> TRUE]]
  /\ UNCHANGED <<peer_kind, stop, is_running, meshVars, port, http_runner, dht_bound,
                 dht_transport, occupied, base_port, start, live, tried>>

\* TorManager.start: _wait_for_tor returns False after its 30 polls, with
\* the hostname file read or not.  No branch of start() handles it: the
\* next attempt begins at once, and after the last one start() returns.
TorStartTimeout ==
  /\ ctl.pc = "new"
  /\ \E read \in BOOLEAN :
       ctl' = IF ctl.tor.attempt < TorMaxRetries - 1
              THEN [ctl EXCEPT !.tor.attempt = @ + 1,
                               !.tor.onion_address = @ \/ read]
              ELSE [ctl EXCEPT !.pc = "mesh",
                               !.tor = [attempt |-> 0,
                                        onion_address |-> ctl.tor.onion_address \/ read,
                                        verified |-> FALSE]]
  /\ UNCHANGED <<peer_kind, stop, is_running, meshVars, port, http_runner, dht_bound,
                 dht_transport, occupied, base_port, start, live, tried>>

\* TorManager.start: the binary is missing, Popen raises or the process
\* died; another attempt after the delay, or the exception after the last
\* one, which MeshChat.start handles with cleanup()
TorStartRaises ==
  /\ ctl.pc = "new"
  /\ ctl' = IF ctl.tor.attempt < TorMaxRetries - 1
            THEN [ctl EXCEPT !.tor.attempt = @ + 1]
            ELSE [ctl EXCEPT !.pc = "cleanup", !.tor.attempt = 0,
                             !.tor.verified = FALSE]
  /\ UNCHANGED <<peer_kind, stop, is_running, meshVars, port, http_runner, dht_bound,
                 dht_transport, occupied, base_port, start, live, tried>>

\* MeshChat.start calls mesh_network.start(); start() runs up to its loop
\* over the candidates
StartCall ==
  /\ ctl.pc = "mesh"
  /\ start.pc = "idle"
  /\ http_runner' = StartHttpServer(http_runner)
  /\ start' = [IdleStart EXCEPT !.pc = "try"]
  /\ tried' = <<>>
  /\ UNCHANGED <<peer_kind, stop, is_running, meshVars, port, dht_bound, dht_transport,
                 occupied, base_port, ctl, live>>

\* start(): _cleanup_port binds and closes a TCP socket on the candidate.
\* Whether the bind fails is the business of the other processes of the
\* host; a failure is logged, followed by a sleep(1), and _cleanup_port
\* returns None either way.  `probe` is a history of what it found.
CleanupPort ==
  /\ start.pc = "try"
  /\ \E found \in {"free", "bound"} :
       start' = [start EXCEPT !.pc = "listen", !.probe = found]
  /\ UNCHANGED <<peer_kind, stop, is_running, meshVars, port, http_runner, dht_bound,
                 dht_transport, occupied, base_port, ctl, live, tried>>

\* start(): listen succeeds, the port and the flag are set and the three
\* loops are created
StartListenOk ==
  /\ start.pc = "listen"
  /\ CanListen(TestPort(start.offset))
  /\ dht_bound' = dht_bound \cup {TestPort(start.offset)}
  /\ dht_transport' = TestPort(start.offset)
  /\ port' = TestPort(start.offset)
  /\ is_running' = TRUE
  /\ live' = [k \in Kinds |-> live[k] + 1]
  /\ start' = [start EXCEPT !.pc = "verify", !.probe = "none"]
  /\ tried' = Append(tried, [port |-> TestPort(start.offset), bound |-> TRUE,
                             verified |-> FALSE])
  /\ UNCHANGED <<peer_kind, stop, meshVars, http_runner, occupied, base_port, ctl>>

\* start(): listen raises
StartListenFail ==
  /\ start.pc = "listen"
  /\ ~CanListen(TestPort(start.offset))
  /\ dht_transport' = dht_transport
  /\ CandidateFailed(dht_bound)
  /\ tried' = Append(tried, [port |-> TestPort(start.offset), bound |-> FALSE,
                             verified |-> FALSE])
  /\ UNCHANGED <<peer_kind, stop, meshVars, port, http_runner, occupied, base_port, ctl, live>>

\* start(): _verify_port_active returns True and start() returns
StartVerifyOk ==
  /\ start.pc = "verify"
  /\ start' = [start EXCEPT !.pc = "returned"]
  /\ tried' = [tried EXCEPT ![Len(tried)].verified = TRUE]
  /\ UNCHANGED <<peer_kind, stop, is_running, meshVars, port, http_runner, dht_bound,
                 dht_transport, occupied, base_port, ctl, live>>

\* start(): _verify_port_active returns False
StartVerifyFail ==
  /\ start.pc = "verify"
  /\ dht_transport' = dht_transport
  /\ CandidateFailed(dht_bound)
  /\ UNCHANGED <<peer_kind, stop, meshVars, port, http_runner, occupied, base_port, ctl, live,
                 tried>>

\* MeshChat.start: start() returned and _verify_network succeeds
ControllerVerifyOk ==
  /\ ctl.pc = "mesh"
  /\ start.pc = "returned"
  /\ VerifyNetwork
  /\ ctl' = [ctl EXCEPT !.pc = "gui"]
  /\ UNCHANGED <<peer_kind, stop, is_running, meshVars, port, http_runner, dht_bound,
                 dht_transport, occupied, base_port, start, live, tried>>

\* MeshChat.start: start() raised or _verify_network failed; another
\* attempt after the delay, or the fatal error after the last one
ControllerAttemptFailed ==
  /\ ctl.pc = "mesh"
  /\ start.pc = "raised" \/ (start.pc = "returned" /\ ~VerifyNetwork)
  /\ IF ctl.attempt < MaxStartRetries - 1
     THEN /\ ctl' = [ctl EXCEPT !.attempt = ctl.attempt + 1]
          /\ start' = IdleStart
     ELSE /\ ctl' = [ctl EXCEPT !.pc = "cleanup"]
          /\ start' = start
  /\ UNCHANGED <<peer_kind, stop, is_running, meshVars, port, http_runner, dht_bound,
                 dht_transport, occupied, base_port, live, tried>>

\* MeshChat.start: window.run() raised, the except branch calls cleanup()
ControllerGuiFails ==
  /\ ctl.pc = "gui"
  /\ ctl' = [ctl EXCEPT !.pc = "cleanup"]
  /\ UNCHANGED <<peer_kind, stop, is_running, meshVars, port, http_runner, dht_bound,
                 dht_transport, occupied, base_port, start, live, tried>>

IdleStop == [pc |-> "idle"]

\* is_running after the first statement of stop()
RunningAfterStop == FALSE

\* stop(), called by MeshChat.cleanup: the flag is cleared, then the
\* responder is closed when there is one, else the DHT is stopped
StopCall ==
  /\ ctl.pc = "cleanup"
  /\ stop.pc = "idle"
  /\ is_running' = RunningAfterStop
  /\ stop' = [pc |-> IF http_runner THEN "http" ELSE "dht"]
  /\ start' = IdleStart
  /\ UNCHANGED <<peer_kind, meshVars, port, http_runner, dht_bound, dht_transport,
                 occupied, base_port, ctl, live, tried>>

\* stop(): _http_runner.cleanup() returned, the runner is dropped
StopHttpClosed ==
  /\ stop.pc = "http"
  /\ http_runner' = FALSE
  /\ stop' = [pc |-> "dht"]
  /\ UNCHANGED <<peer_kind, is_running, meshVars, port, dht_bound, dht_transport,
                 occupied, base_port, start, ctl, live, tried>>

\* stop(): _http_runner.cleanup() raised; nothing in stop() catches it
StopHttpRaises ==
  /\ stop.pc = "http"
  /\ stop' = [pc |-> "raised"]
  /\ UNCHANGED <<peer_kind, is_running, meshVars, port, http_runner, dht_bound,
                 dht_transport, occupied, base_port, start, ctl, live, tried>>

\* stop(): dht.stop() returned, the sleep(1) begins
StopDhtStopped ==
  /\ stop.pc = "dht"
  /\ dht_bound' = DhtStop(dht_bound, dht_transport)
  /\ stop' = [pc |-> "sleep"]
  /\ UNCHANGED <<peer_kind, is_running, meshVars, port, http_runner, dht_transport,
                 occupied, base_port, start, ctl, live, tried>>

\* stop(): dht.stop() raised, before or after it closed the endpoint;
\* nothing in stop() catches it
StopDhtRaises ==
  /\ stop.pc = "dht"
  /\ \E closed \in BOOLEAN :
       dht_bound' = IF closed THEN DhtStop(dht_bound, dht_transport)
                    ELSE dht_bound
  /\ stop' = [pc |-> "raised"]
  /\ UNCHANGED <<peer_kind, is_running, meshVars, port, http_runner, dht_transport,
                 occupied, base_port, start, ctl, live, tried>>

\* stop(): the sleep(1) is over and stop() returns
StopReturn ==
  /\ stop.pc = "sleep"
  /\ stop' = [pc |-> "returned"]
  /\ UNCHANGED <<peer_kind, is_running, meshVars, port, http_runner, dht_bound,
                 dht_transport, occupied, base_port, start, ctl, live, tried>>

\* MeshChat.cleanup: gather(..., return_exceptions=True) is over, whether
\* stop() returned or raised
ControllerCleanup ==
  /\ ctl.pc = "cleanup"
  /\ stop.pc \in {"returned", "raised"}
  /\ ctl' = [ctl EXCEPT !.pc = "stopped"]
  /\ UNCHANGED <<peer_kind, stop, is_running, meshVars, port, http_runner, dht_bound,
                 dht_transport, occupied, base_port, start, live, tried>>

\* MeshChat.start: sys.exit(1) ends the process and with it every task and
\* every endpoint
ControllerExit ==
  /\ ctl.pc = "stopped"
  /\ ctl' = [ctl EXCEPT !.pc = "exited"]
  /\ live' = [k \in Kinds |-> 0]
  /\ dht_bound' = {}
  /\ UNCHANGED <<peer_kind, stop, is_running, meshVars, port, http_runner, dht_transport,
                 occupied, base_port, start, tried>>

\* a background loop tests is_running, finds it set and goes through an
\* iteration: with an empty registry and an empty buffer nothing changes
LoopIterate(k) ==
  /\ live[k] > 0
  /\ LoopCondition(is_running)
  /\ UNCHANGED vars

\* a background loop tests is_running, finds it clear and ends
LoopEnd(k) ==
  /\ live[k] > 0
  /\ ~LoopCondition(is_running)
  /\ live' = OneEnded(k)
  /\ UNCHANGED <<peer_kind, stop, is_running, meshVars, port, http_runner, dht_bound,
                 dht_transport, occupied, base_port, start, ctl, tried>>

\* ------------------------------------------------------ specification
\* The state a start() leaves that committed its n-th candidate after the
\* n-1 before it bound and failed verification: n instances of each loop.
Started(n) ==
  /\ port = TestPort(n - 1)
  /\ http_runner = TRUE
  /\ dht_bound = {TestPort(n - 1)}
  /\ dht_transport = TestPort(n - 1)
  /\ occupied = {}
  /\ base_port = "free"
  /\ start = [IdleStart EXCEPT !.pc = "returned", !.offset = n - 1]
  /\ ctl = [pc |-> "gui", attempt |-> 0,
            tor |-> [NoTor EXCEPT !.onion_address = TRUE, !.verified = TRUE]]
  /\ live = [k \in Kinds |-> n]
  /\ tried = [j \in 1..n |-> [port |-> TestPort(j - 1), bound |-> TRUE,
                              verified |-> (j = n)]]
  /\ stop = IdleStop

IdleBuffer == [pc |-> "sleep", rest |-> <<>>, current_time |-> 0]

\* The mesh data of a running network: the loops asleep, the registry
\* filled by discovery at time 0.
InitMesh(n) ==
  /\ now = 0
  /\ is_running = TRUE
  /\ peers = [i \in 1..NumPeers |-> i]
  /\ pstate = [p \in Peers |-> PeerState(0)]
  /\ known_messages = {}
  /\ message_buffer = <<>>
  /\ battempts = [k \in Keys |-> 0]
  /\ btime = [k \in Keys |-> 0]
  /\ bc = [c \in Calls |-> IdleCall]
  /\ hb = [i \in Inst |-> [pc |-> IF i <= n THEN "sleep" ELSE "none",
                           rest |-> <<>>]]
  /\ mt = [i \in Inst |-> IF i <= n THEN "sleep" ELSE "none"]
  /\ bf = [i \in Inst |-> IF i <= n THEN IdleBuffer
                          ELSE [IdleBuffer EXCEPT !.pc = "none"]]
  /\ bresult = [p \in Peers |-> [m \in Msgs |-> "none"]]
  /\ bsent = [p \in Peers |-> [m \in Msgs |-> 0]]
  /\ recv = [p \in Peers |-> [m \in Msgs |-> 0]]
  /\ hbfails = [p \in Peers |-> 0]
  /\ hbdecay = [p \in Peers |-> FALSE]
  /\ n0 = [p \in Peers |-> -1]
  /\ cycles = [p \in Peers |-> 0]

\* start() creates one instance of each loop each time a candidate port
\* binds and cancels none, so one or more of each can be alive.
AllOther == [p \in Peers |-> "other"]

Init == \E n \in Inst : Started(n) /\ InitMesh(n) /\ peer_kind = AllOther

\* Peer liveness and dissemination: broadcast_message, _heartbeat and
\* _peer_maintenance.  _handle_message_buffer reads and writes nothing but
\* message_buffer and its entries, which the claims checked here read only
\* at the steps of broadcast_message; it runs in SpecBuffer.
Next ==
  \/ \E m \in Msgs : BroadcastDuplicate(m)
  \/ \E c \in Calls, m \in Msgs : BroadcastNew(c, m)
  \/ \E c \in Calls : BroadcastSendOk(c)
  \/ \E c \in Calls : BroadcastSendFail(c)
  \/ \E i \in Inst : HeartbeatWake(i)
  \/ \E i \in Inst : HeartbeatOk(i)
  \/ \E i \in Inst : HeartbeatFail(i)
  \/ \E i \in Inst : MaintenanceCycle(i)
  \/ Tick(PeerTimeout, MaxTicks * PeerTimeout)

Spec == Init /\ [][Next]_vars

\* Buffered redelivery: broadcast_message fills the buffer and the
\* instances of _handle_message_buffer empty it.  _heartbeat and
\* _peer_maintenance touch neither the buffer nor its entries; they run in
\* Spec.
NextBuffer ==
  \/ \E m \in Msgs : BroadcastDuplicate(m)
  \/ \E c \in Calls, m \in Msgs : BroadcastNew(c, m)
  \/ \E c \in Calls : BroadcastSendOk(c)
  \/ \E c \in Calls : BroadcastSendFail(c)
  \/ \E i \in Inst : BufferWake(i)
  \/ \E i \in Inst : BufferSendOk(i)
  \/ \E i \in Inst : BufferSendFail(i)
  \/ \E i \in Inst : BufferBackoffDone(i)
  \/ Tick(RetentionWindow, MaxHours * RetentionWindow)

SpecBuffer == Init /\ [][NextBuffer]_vars

\* Start-up: the state after construction, in an environment where other
\* processes hold any of the candidate ports and leave base_port free,
\* bound or listening; MeshChat.start, MeshNetwork.start and the loops
\* start() creates.  The registry and the buffer stay empty.
InitStart ==
  /\ now = 0
  /\ is_running = FALSE
  /\ peers = <<>>
  /\ pstate = [p \in Peers |-> PeerState(0)]
  /\ known_messages = {}
  /\ message_buffer = <<>>
  /\ battempts = [k \in Keys |-> 0]
  /\ btime = [k \in Keys |-> 0]
  /\ bc = [c \in Calls |-> IdleCall]
  /\ hb = [i \in Inst |-> [pc |-> "none", rest |-> <<>>]]
  /\ mt = [i \in Inst |-> "none"]
  /\ bf = [i \in Inst |-> [IdleBuffer EXCEPT !.pc = "none"]]
  /\ bresult = [p \in Peers |-> [m \in Msgs |-> "none"]]
  /\ bsent = [p \in Peers |-> [m \in Msgs |-> 0]]
  /\ recv = [p \in Peers |-> [m \in Msgs |-> 0]]
  /\ hbfails = [p \in Peers |-> 0]
  /\ hbdecay = [p \in Peers |-> FALSE]
  /\ n0 = [p \in Peers |-> -1]
  /\ cycles = [p \in Peers |-> 0]
  /\ port = 0
  /\ http_runner = FALSE
  /\ dht_bound = {}
  /\ dht_transport = 0
  /\ occupied \in SUBSET {TestPort(o) : o \in 0..(MaxRetryPorts - 1)}
  /\ base_port \in {"free", "bound", "listening"}
  /\ start = IdleStart
  /\ ctl = [pc |-> "new", attempt |-> 0, tor |-> NoTor]
  /\ live = [k \in Kinds |-> 0]
  /\ tried = <<>>
  /\ stop = IdleStop
  /\ peer_kind = AllOther

NextStart ==
  \/ TorStartVerified
  \/ TorStartTimeout
  \/ TorStartRaises
  \/ StartCall
  \/ CleanupPort
  \/ StartListenOk
  \/ StartListenFail
  \/ StartVerifyOk
  \/ StartVerifyFail
  \/ ControllerVerifyOk
  \/ ControllerAttemptFailed
  \/ ControllerGuiFails
  \/ StopCall
  \/ StopHttpClosed
  \/ StopHttpRaises
  \/ StopDhtStopped
  \/ StopDhtRaises
  \/ StopReturn
  \/ ControllerCleanup
  \/ ControllerExit
  \/ \E k \in Kinds : LoopIterate(k)
  \/ \E k \in Kinds : LoopEnd(k)

SpecStart == InitStart /\ [][NextStart]_vars


\* The running network with the peers 1..np in its registry; with
\* `buffered`, after a broadcast of text 1 whose sends to all of them failed:
\* one buffered entry per peer.
InitRegistry(n, np, buffered) ==
  /\ now = 0
  /\ is_running = TRUE
  /\ peers = [i \in 1..np |-> i]
  /\ pstate = [p \in Peers |-> IF buffered /\ p <= np
                               THEN RecordFailure(PeerState(0))
                               ELSE PeerState(0)]
  /\ known_messages = IF buffered THEN {Hash(1)} ELSE {}
  /\ message_buffer = IF buffered THEN [i \in 1..np |-> <<i, 1>>] ELSE <<>>
  /\ battempts = [k \in Keys |-> 0]
  /\ btime = [k \in Keys |-> 0]
  /\ bc = [c \in Calls |-> IdleCall]
  /\ hb = [i \in Inst |-> [pc |-> IF i <= n THEN "sleep" ELSE "none",
                           rest |-> <<>>]]
  /\ mt = [i \in Inst |-> IF i <= n THEN "sleep" ELSE "none"]
  /\ bf = [i \in Inst |-> IF i <= n THEN IdleBuffer
                          ELSE [IdleBuffer EXCEPT !.pc = "none"]]
  /\ bresult = [p \in Peers |-> [m \in Msgs |->
                  IF buffered /\ p <= np /\ m = 1 THEN "fail" ELSE "none"]]
  /\ bsent = [p \in Peers |-> [m \in Msgs |->
                IF buffered /\ p <= np /\ m = 1 THEN 1 ELSE 0]]
  /\ recv = [p \in Peers |-> [m \in Msgs |-> 0]]
  /\ hbfails = [p \in Peers |-> 0]
  /\ hbdecay = [p \in Peers |-> FALSE]
  /\ n0 = [p \in Peers |-> -1]
  /\ cycles = [p \in Peers |-> 0]

\* Shutdown: the running network, its buffer empty or filled, the window
\* failing at any moment, and MeshChat.cleanup calling stop() while the
\* three loops are wherever they are.  The process is kept alive after
\* cleanup, so that the loops are seen to end by themselves.
InitStop ==
  \E buffered \in BOOLEAN :
     Started(1) /\ InitRegistry(1, 1, buffered) /\ peer_kind = AllOther

LoopStep(i) ==
  \/ HeartbeatWake(i) \/ HeartbeatOk(i) \/ HeartbeatFail(i) \/ HeartbeatExit(i)
  \/ MaintenanceCycle(i) \/ MaintenanceExit(i)
  \/ BufferWake(i) \/ BufferSendOk(i) \/ BufferSendFail(i)
  \/ BufferBackoffDone(i) \/ BufferExit(i)

NextStop ==
  \/ \E i \in Inst : HeartbeatWake(i)
  \/ \E i \in Inst : HeartbeatOk(i)
  \/ \E i \in Inst : HeartbeatFail(i)
  \/ \E i \in Inst : HeartbeatExit(i)
  \/ \E i \in Inst : MaintenanceCycle(i)
  \/ \E i \in Inst : MaintenanceExit(i)
  \/ \E i \in Inst : BufferWake(i)
  \/ \E i \in Inst : BufferSendOk(i)
  \/ \E i \in Inst : BufferSendFail(i)
  \/ \E i \in Inst : BufferBackoffDone(i)
  \/ \E i \in Inst : BufferExit(i)
  \/ ControllerGuiFails
  \/ StopCall
  \/ StopHttpClosed
  \/ StopHttpRaises
  \/ StopDhtStopped
  \/ StopDhtRaises
  \/ StopReturn
  \/ ControllerCleanup

\* The event loop runs every task that is ready: a sleep ends, a send
\* returns or raises within its timeout.
SpecStop ==
  /\ InitStop
  /\ [][NextStop]_vars
  /\ \A i \in Inst : WF_vars(LoopStep(i))

\* Two nodes: the running network whose peers are hosts that run this
\* program, with or without their liveness responder, or something else;
\* broadcast_message and _heartbeat dial them.
InitWire ==
  \E n \in Inst :
     Started(n) /\ InitMesh(n) /\ peer_kind \in [Peers -> PeerKinds]

NextWire ==
  \/ \E m \in Msgs : BroadcastDuplicate(m)
  \/ \E c \in Calls, m \in Msgs : BroadcastNew(c, m)
  \/ \E c \in Calls : BroadcastSendOk(c)
  \/ \E c \in Calls : BroadcastSendFail(c)
  \/ \E i \in Inst : HeartbeatWake(i)
  \/ \E i \in Inst : HeartbeatOk(i)
  \/ \E i \in Inst : HeartbeatFail(i)

SpecWire == InitWire /\ [][NextWire]_vars

\* The network as start() leaves it when the first candidate port works (one
\* task per loop), with the scheduling the event loop guarantees to
\* _peer_maintenance: its sleep(60) ends and the next cycle runs.
InitFair == Started(1) /\ InitMesh(1) /\ peer_kind = AllOther

SpecFair == InitFair /\ [][Next]_vars /\ WF_vars(MaintenanceCycle(1))

\* ================================================================ claims
Active(p) == pstate[p].is_active
Failed(p) == pstate[p].failed_attempts
Registry == Range(peers)

\* C1 as stated: for every peer of the registry, is_active equals
\* (failed_attempts < 3).  Violated: maintenance lowers the counter of an
\* inactive peer below 3 and reactivates it only at 0.
C1_ActiveIffBelowThreshold ==
  \A p \in Registry : Active(p) = (Failed(p) < FailThreshold)

\* C1 amended: for every peer of the registry, under every interleaving of
\* broadcast failures, heartbeats and maintenance cycles, is_active implies
\* failed_attempts < 3 (a peer with 3 or more failures is inactive).
C1_ActiveImpliesBelowThreshold ==
  \A p \in Registry : Active(p) => Failed(p) < FailThreshold

\* a deactivated peer whose counter maintenance has lowered once
C1_Witness ==
  \E p \in Registry : ~Active(p) /\ Failed(p) = FailThreshold - 1

ThirdHeartbeatFailure(p) ==
  hbfails[p] < FailThreshold /\ hbfails'[p] = FailThreshold

\* broadcast opens a connection only to a peer that is active when visited
BroadcastSkipsInactive ==
  \A p \in Peers, m \in Msgs :
     bsent'[p][m] > bsent[p][m] => pstate'[p].is_active /\ pstate[p].is_active

\* C3 as stated: the third consecutive heartbeat failure of a peer leaves
\* it inactive, and broadcast contacts no inactive peer.  Violated: between
\* two of the failures a broadcast failure may deactivate the peer and
\* maintenance decay reactivate it with a lower counter.
C3_ThreeHeartbeatFailuresDeactivate ==
  [][ /\ \A p \in Peers : ThirdHeartbeatFailure(p) => ~pstate'[p].is_active
      /\ BroadcastSkipsInactive ]_vars

\* C3 amended: the third consecutive heartbeat failure of a peer, with no
\* maintenance decay of its counter since its last heartbeat success, leaves
\* it inactive; and a broadcast_message call opens no connection to a peer
\* that is inactive when the call visits it.
C3_HeartbeatFailuresDeactivate ==
  [][ /\ \A p \in Peers :
           ThirdHeartbeatFailure(p) /\ ~hbdecay'[p] => ~pstate'[p].is_active
      /\ BroadcastSkipsInactive ]_vars

\* a peer deactivated by three heartbeat failures was skipped by a broadcast
C3_Witness ==
  \E p \in Peers, m \in Msgs :
     /\ hbfails[p] = FailThreshold /\ ~hbdecay[p] /\ ~Active(p)
     /\ bresult[p][m] = "skip" /\ bsent[p][m] = 0

C10_BroadcastFailureBookkeeping ==
  /\ [][ /\ \A p \in Peers, m \in Msgs :
              bresult[p][m] = "conn" /\ bresult'[p][m] = "fail" =>
                 pstate'[p].failed_attempts = pstate[p].failed_attempts + 1
         /\ \A c \in Calls :
              bc[c].pc = "conn" /\ bc'[c].pc = "idle" =>
                 LET m == bc[c].msg
                     fp == {p \in Peers : bresult'[p][m] = "fail"}
                     added == SubSeq(message_buffer', Len(message_buffer) + 1,
                                     Len(message_buffer'))
                 IN /\ SubSeq(message_buffer', 1, Len(message_buffer)) = message_buffer
                    /\ Len(added) = Cardinality(fp)
                    /\ Range(added) = {<<p, m>> : p \in fp}
                    /\ \A k \in Range(added) :
                         /\ BufferedMessage(k)'.attempts = 0
                         /\ BufferedMessage(k)'.message = CompressMessage(m)
                         /\ BufferedMessage(k)'.peer = k[1]
         /\ \A p \in Peers, m \in Msgs :
              bresult[p][m] # "skip" /\ bresult'[p][m] = "skip" =>
                 /\ ~pstate[p].is_active
                 /\ pstate'[p] = pstate[p]
                 /\ bsent'[p][m] = 0 ]_vars
  /\ [](\A k \in Range(message_buffer) : bresult[k[1]][k[2]] = "fail")

\* one call failed for one peer, which got its entry, and skipped another
C10_Witness ==
  \E m \in Msgs, p, q \in Peers :
     /\ bresult[p][m] = "fail" /\ <<p, m>> \in Range(message_buffer)
     /\ battempts[<<p, m>>] = 0
     /\ bresult[q][m] = "skip" /\ <<q, m>> \notin Range(message_buffer)
     /\ \A c \in Calls : bc[c].pc = "idle"

\* the entries that a step of buffer task i walks past: the whole copy when
\* the task wakes, the entries after the current one when it goes on
Scanned(i) ==
  IF bf[i].pc = "sleep" THEN Range(message_buffer)
  ELSE IF bf'[i] # bf[i] /\ bf[i].rest # <<>> THEN Range(Tail(bf[i].rest))
  ELSE {}

PassTime(i) == IF bf[i].pc = "sleep" THEN now ELSE bf[i].current_time

\* C5 as stated: (a) the attempts counter of every buffered message is in
\* 0..5; (b) a redelivery is started only for an entry with attempts < 5;
\* (c) a pass that walks past an entry with attempts >= 5 whose age at the
\* start of the pass exceeds one hour does not leave it in the buffer.
\* Violated in (a): two live _handle_message_buffer tasks both have the
\* send of an entry with attempts = 4 in flight, and both sends fail.
C5_AttemptsBoundedAndPurged ==
  /\ [](\A k \in Range(message_buffer) : battempts[k] \in 0..MaxAttempts)
  /\ [][ /\ \A i \in Inst :
              bf'[i].pc = "send" /\ bf'[i] # bf[i] /\ bf[i].pc # "send" =>
                 battempts[Head(bf'[i].rest)] < MaxAttempts
         /\ \A i \in Inst : \A k \in Scanned(i) :
              ( /\ bf'[i] # bf[i]
                /\ k \notin Range(bf'[i].rest)
                /\ battempts[k] >= MaxAttempts
                /\ PassTime(i) - btime[k] > RetentionWindow )
              => k \notin Range(message_buffer') ]_vars

\* broadcast opened a connection to p for text m: p was active when visited
Owed(p, m) == bresult[p][m] \in {"conn", "ok", "fail"}

\* a send of text m to p is in flight, or its failure is about to be buffered
InFlight(p, m) ==
  \/ bresult[p][m] = "conn"
  \/ \E c \in Calls : bc[c].pc = "conn" /\ bc[c].msg = m /\ p \in Range(bc[c].failed)
  \/ \E i \in Inst : bf[i].pc = "send" /\ Head(bf[i].rest) = <<p, m>>

Pending(p, m) == InFlight(p, m) \/ <<p, m>> \in Range(message_buffer)

Worked(j) == tried[j].bound /\ tried[j].verified

\* C6: whenever start() has returned, the committed port is the first
\* candidate, in ascending order from base_port + 1, on which both the bind
\* and the verification succeeded: every candidate before it was tried and
\* failed one of the two, the committed one is bound and the network runs.
\* With the first two candidates occupied that is at the earliest the third.
C6_CommitsFirstWorkingCandidate ==
  start.pc = "returned" =>
    LET n == Len(tried) IN
      /\ n \in 1..MaxRetryPorts
      /\ \A j \in 1..n : tried[j].port = BasePort + j
      /\ \A j \in 1..(n - 1) : ~Worked(j)
      /\ Worked(n)
      /\ port = BasePort + n
      /\ port \in dht_bound
      /\ is_running
      /\ ({BasePort + 1, BasePort + 2} \subseteq occupied => n >= 3)

\* C6 witness: start() returned with the third candidate committed, the
\* first two being occupied
C6_Witness ==
  /\ start.pc = "returned"
  /\ {BasePort + 1, BasePort + 2} \subseteq occupied
  /\ port = BasePort + 3
  /\ Len(tried) = 3

\* C7: whenever start() has ended with its error, every one of the N
\* candidates was tried and none worked, the error names the range
\* base_port + 1 .. base_port + N, and is_running is false.
C7_AllCandidatesFailRaises ==
  start.pc = "raised" =>
    /\ Len(tried) = MaxRetryPorts
    /\ \A j \in 1..MaxRetryPorts : tried[j].port = BasePort + j /\ ~Worked(j)
    /\ start.error = <<BasePort + 1, BasePort + MaxRetryPorts>>
    /\ ~is_running

\* C7 witness: start() ended with its error after a candidate had bound,
\* set the flag, and failed verification as the last one
C7_Witness ==
  /\ start.pc = "raised"
  /\ tried[MaxRetryPorts].bound
  /\ \E j \in 1..(MaxRetryPorts - 1) : ~tried[j].bound

\* C8 as stated: while the latest start() has returned and the network has
\* not been stopped exactly one DHT port is bound, and at no time does this
\* process hold more than one.  Violated: a second start() of the lifecycle
\* controller binds a candidate that failed verification in the first one
\* while the port committed by the first one is still bound.
C8_ExactlyOnePortBound ==
  /\ start.pc = "returned" => Cardinality(dht_bound) = 1
  /\ Cardinality(dht_bound) <= 1


\* every task of the three loops has ended
AllEnded ==
  \A i \in Inst : /\ hb[i].pc \in {"none", "done"}
                  /\ mt[i] \in {"none", "done"}
                  /\ bf[i].pc \in {"none", "done", "dead"}

\* C11: once stop() has cleared the running flag (no start() follows in
\* SpecStop), (a) a loop that is asleep begins no new iteration when it
\* wakes: a sleeping heartbeat or buffered-delivery task stays asleep or
\* ends, and the registry and the peer states change by no maintenance
\* iteration, only by the heartbeat sends still in flight; (b) every task
\* of the three loops eventually ends.
C11_LoopsEndAfterStop ==
  /\ [][ ~is_running =>
           /\ \A i \in Inst : hb[i].pc = "sleep" => hb'[i].pc \in {"sleep", "done"}
           /\ \A i \in Inst : bf[i].pc = "sleep" => bf'[i].pc \in {"sleep", "done"}
           /\ hb' = hb => (pstate' = pstate /\ peers' = peers) ]_vars
  /\ (~is_running ~> AllEnded)

\* C11 witness: stop() has returned and the three loops have ended, the
\* buffered-delivery loop after it had tried a redelivery
C11_Witness ==
  /\ ~is_running
  /\ stop.pc = "returned"
  /\ hb[1].pc = "done" /\ mt[1] = "done" /\ bf[1].pc = "done"
  /\ battempts[<<1, 1>>] > 0

\* C14 as stated: for a peer B that is a node of this program and that node
\* A found active, (a) B accepts the connection A opens to send it the frame
\* of text m, and (b) once the send has returned, B's dissemination protocol
\* has read a frame whose length prefix is the length of its payload and
\* whose payload decompresses to m.  Violated in (a): A dials B on A's own
\* DHT port number, where B listens on TCP at most at base_port.
C14_PeerReceivesFrame ==
  \A p \in Peers, m \in Msgs :
     peer_kind[p] \in {"node", "bare"} =>
       /\ bresult[p][m] = "conn" => CanConnect(p)
       /\ bresult[p][m] = "ok" =>
            \E k \in 1..Len(Inbox(p)) :
               /\ Inbox(p)[k] = Frame(CompressMessage(m))
               /\ Inbox(p)[k].length = ByteLength(Inbox(p)[k].payload)
               /\ DecompressMessage(Inbox(p)[k].payload) = m

\* C12 as stated: whenever stop() has ended, from whatever state it was
\* called, it has returned without raising and has left is_running false,
\* the liveness responder closed and no DHT endpoint bound.  Violated:
\* stop() catches nothing, so a close that raises ends it on the spot, with
\* the error raised to the caller and the resources after it still open.
C12_StopCompletesTeardown ==
  stop.pc \in {"returned", "raised"} =>
    /\ stop.pc = "returned"
    /\ ~is_running
    /\ ~http_runner
    /\ dht_bound = {}

\* C13 as stated: a step of start() that launches background loops is the
\* step at which the verification of the bound candidate succeeded, so no
\* loop is launched for a candidate that is rejected afterwards.  Violated:
\* the loops are created right after listen() returned, before the
\* verification has begun.
C13_LoopsLaunchedAfterVerification ==
  [][ (\E k \in Kinds : live'[k] > live[k]) =>
        /\ start.pc = "verify"
        /\ start'.pc = "returned"
        /\ tried'[Len(tried')].bound
        /\ tried'[Len(tried')].verified ]_vars

\* a heartbeat to p succeeded in this step
HeartbeatSucceeded(p) ==
  \E i \in Inst : /\ hb[i].pc = "conn" /\ Head(hb[i].rest) = p
                  /\ hb'[i] # hb[i] /\ hbfails'[p] = 0

\* a heartbeat to p failed in this step
HeartbeatFailed(p) ==
  \E i \in Inst : /\ hb[i].pc = "conn" /\ Head(hb[i].rest) = p
                  /\ hb'[i] # hb[i] /\ hbfails'[p] > 0

\* a frame was delivered to p in this step, by broadcast or by redelivery
DeliverySucceeded(p) ==
  \E m \in Msgs : \/ bresult'[p][m] = "ok" /\ bresult[p][m] # "ok"
                  \/ \E i \in Inst : /\ bf[i].pc = "send" /\ bf'[i] # bf[i]
                                     /\ Head(bf[i].rest) = <<p, m>>
                                     /\ recv'[p][m] > recv[p][m]

\* a send of broadcast or of redelivery to p failed in this step
DeliveryFailed(p) ==
  \E m \in Msgs : \/ bresult'[p][m] = "fail" /\ bresult[p][m] # "fail"
                  \/ \E i \in Inst : /\ bf[i].pc = "send" /\ bf'[i].pc = "backoff"
                                     /\ Head(bf[i].rest) = <<p, m>>
                                     /\ recv' = recv

\* C15 as stated: every successful contact with a peer, by heartbeat,
\* broadcast send or buffered redelivery, leaves its failed_attempts at 0 and
\* its last_seen at the time of the contact (which is what makes the counter
\* a count of consecutive failures).  Violated: a successful send of
\* broadcast_message or of redelivery changes nothing in the PeerState.
C15_SuccessResetsCounter ==
  [][ \A p \in Peers :
        HeartbeatSucceeded(p) \/ DeliverySucceeded(p) =>
          /\ pstate'[p].failed_attempts = 0
          /\ pstate'[p].last_seen = now ]_vars

\* C16 as stated: an inactive peer is active right after a heartbeat to it
\* or a delivery to it has succeeded.  Violated: no success sets is_active;
\* only the maintenance decay does.
C16_SuccessReactivates ==
  [][ \A p \in Peers :
        ~Active(p) /\ (HeartbeatSucceeded(p) \/ DeliverySucceeded(p)) =>
          Active(p)' ]_vars

\* C18 as stated: every failed connection or send to a peer, in
\* broadcast_message, in _heartbeat or in buffered redelivery, adds 1 to the
\* failed_attempts of that peer, and the task that attempted it goes on.
\* Violated: a failed redelivery counts an attempt of the buffered entry and
\* leaves the PeerState as it is.
C18_FailureCountsAgainstPeer ==
  [][ \A p \in Peers :
        HeartbeatFailed(p) \/ DeliveryFailed(p) =>
          /\ pstate'[p].failed_attempts = pstate[p].failed_attempts + 1
          /\ \A i \in Inst : bf'[i].pc # "dead" /\ hb'[i].pc # "done" ]_vars

\* C19 as stated: a task of a background loop ends only in a step that
\* finds the running flag false.  Violated: a _handle_message_buffer task
\* whose expired entry was removed by another one while it was suspended is
\* ended by the ValueError of list.remove.
C19_LoopsEndOnlyByFlag ==
  [][ \A i \in Inst :
        \/ hb'[i].pc = "done" /\ hb[i].pc # "done"
        \/ mt'[i] = "done" /\ mt[i] # "done"
        \/ bf'[i].pc \in {"done", "dead"} /\ bf[i].pc \notin {"done", "dead"}
        => ~is_running ]_vars

\* a step of _peer_maintenance: no other step of Spec leaves the clock and
\* the coroutines of broadcast_message and _heartbeat as they are
MaintenanceStep == now' = now /\ bc' = bc /\ hb' = hb

\* C20 as stated: a maintenance cycle removes a peer of the registry if and
\* only if now - last_seen exceeds the peer timeout; a peer whose age equals
\* the timeout is kept.  Violated: the cycle keeps the peers with
\* now - last_seen < peer_timeout, so it removes a peer of age 300.
C20_RemovesExactlyStalePeers ==
  [][ MaintenanceStep =>
        \A p \in Registry :
           (p \notin Range(peers')) <=> (now - pstate[p].last_seen > PeerTimeout) ]_vars

\* C17: while the network runs and _peer_maintenance keeps being scheduled,
\* a peer that is inactive in the registry is eventually active again or
\* removed from the registry.
C17_InactiveNotForever ==
  \A p \in Peers :
     (p \in Registry /\ ~Active(p)) ~> (p \notin Registry \/ Active(p))

\* C17 witness: a peer that maintenance found inactive is active again, and
\* has failed again since
C17_Witness ==
  \E p \in Registry : Active(p) /\ hbdecay[p] /\ Failed(p) > 0

\* something accepts a TCP connection on base_port of the loopback
BasePortAnswers == http_runner \/ base_port = "listening"

\* C21: MeshChat.start calls mesh_network.start() at most 3 times; the
\* window is created only from an attempt in which start() returned with a
\* verified candidate and the connect of _verify_network was accepted; the
\* controller gives up only when the third attempt has failed, and from its
\* cleanup on the window is never started.
C21_GuiOnlyAfterVerifiedStart ==
  /\ [](ctl.attempt < MaxStartRetries)
  /\ [][ /\ (start.pc = "idle" /\ start'.pc = "try") => ctl.attempt < MaxStartRetries
         /\ (ctl'.pc = "gui" /\ ctl.pc # "gui") =>
               /\ ctl.pc = "mesh" /\ start.pc = "returned"
               /\ Worked(Len(tried)) /\ BasePortAnswers
         /\ (ctl.pc = "mesh" /\ ctl'.pc = "cleanup") =>
               /\ ctl.attempt = MaxStartRetries - 1
               /\ start.pc = "raised" \/ ~BasePortAnswers
         /\ ctl.pc \in {"cleanup", "stopped", "exited"} =>
               ctl'.pc \in {"cleanup", "stopped", "exited"} ]_vars

\* C21 witness: the third attempt has failed and cleanup runs
C21_Witness ==
  /\ ctl.pc = "cleanup" /\ ctl.attempt = MaxStartRetries - 1
  /\ start.pc = "raised" \/ (start.pc = "returned" /\ ~BasePortAnswers)

\* C24 as stated: an attempt in which start() has returned with a verified
\* candidate while the responder is not up does not end the start-up: the
\* controller never goes from such an attempt to its fatal cleanup.
\* Violated: _verify_network connects to base_port, where nothing of this
\* process listens, and the third such attempt is fatal.
C24_ResponderFailureNotFatal ==
  [][ /\ ctl.pc = "mesh" /\ start.pc = "returned" /\ Worked(Len(tried))
      /\ ~http_runner
      => ctl'.pc # "cleanup" ]_vars

\* C25 as stated: at most one task of each background loop is alive.
\* Violated: start() creates the three tasks for every candidate that binds
\* and for every call, and cancels none.
C25_OneInstancePerLoop == \A k \in Kinds : live[k] <= 1

\* C26: in every reachable state of the interleavings of broadcast_message,
\* _heartbeat and _peer_maintenance, no peer, in the registry or removed
\* from it, is active with failed_attempts >= 3.
C26_NoActivePeerAtThreshold ==
  \A p \in Peers : ~(pstate[p].is_active /\ pstate[p].failed_attempts >= FailThreshold)

\* C26 witness: a broadcast send and a heartbeat to the same peer have both
\* failed, the peer has passed the threshold and maintenance has acted on it
C26_Witness ==
  \E p \in Peers, m \in Msgs :
     /\ bresult[p][m] = "fail" /\ hbfails[p] > 0 /\ hbdecay[p]
     /\ pstate[p].failed_attempts >= FailThreshold

\* C22 as stated: whenever MeshChat.start is past tor_manager.start() and on
\* its way to the overlay or with the overlay started, the onion address has
\* been read and the SOCKS port was reachable.  Violated: after three
\* _wait_for_tor that return False, TorManager.start falls off the end of
\* its for loop and returns normally.
C22_OverlayOnlyAfterTransportLive ==
  ctl.pc \in {"mesh", "gui"} => ctl.tor.onion_address /\ ctl.tor.verified

\* C23 as stated: when the probe of _cleanup_port has found the candidate
\* bound, the next step of start() is the next candidate (or the final error
\* after the last one) with no listen in between: no endpoint is bound or
\* closed, no loop is created, the flag and the port are as before.
\* Violated: start() ignores the probe and calls dht.listen on the candidate.
C23_BoundCandidateSkipped ==
  [][ start.pc = "listen" /\ start.probe = "bound" /\ start' # start =>
        /\ start' = IF start.offset + 1 < MaxRetryPorts
                    THEN [start EXCEPT !.pc = "try", !.offset = @ + 1, !.probe = "none"]
                    ELSE [start EXCEPT !.pc = "raised", !.error = ErrorRange,
                                       !.probe = "none"]
        /\ UNCHANGED <<dht_bound, dht_transport, port, is_running, live, tried>> ]_vars

====
